---- MODULE Spec2Model ----
(***************************************************************************)
(* Model of src/app.py, the Streamlit expense tracker.                     *)
(*                                                                         *)
(* One action of the model is one execution of the script from line 1 to   *)
(* the point where it stops: st.rerun() (lines 39, 48, 62), an uncaught    *)
(* exception, or the end of the dashboard.  The session state              *)
(* (st.session_state.df, st.session_state.budget) and the file held by the *)
(* uploader widget survive from one execution to the next.                 *)
(*                                                                         *)
(* Values.  A date is a day number 1..MaxDate, DaysPerMonth consecutive    *)
(* days making one calendar month; a Date cell is such a day (a Timestamp, *)
(* or text that parses to that date), BadDateText (text that does not      *)
(* parse) or NaT.  A Month cell is a month number, or NaT.  An             *)
(* Amount cell is an integer (a number, or text that parses to it),        *)
(* NonNumericText or NaN.  Text cells are strings, NA standing for a       *)
(* missing value.  A data frame is [cols, rows]: cols the sequence of      *)
(* column names, rows a sequence of records that hold the missing value    *)
(* in every column the frame does not have.                                *)
(***************************************************************************)
EXTENDS Integers, Sequences, FiniteSets, TLC

\* ------------------------------------------------------------------ bounds
MaxDate == 3      \* days a date may be chosen from
MaxLen == 2       \* rows st.session_state.df may hold
MaxRows == 2      \* data rows of an uploaded CSV file

\* ------------------------------------------------------------------ values
NaT == 0
NaN == -9999
NA == "<NA>"
BadDateText == -1
NonNumericText == 9999
DaysPerMonth == 2

CATEGORIES == {"Food", "Transport", "Entertainment", "Utilities", "Health", "Shopping", "Other"}

SessionColumns == <<"Date", "Category", "Amount", "Description">>

BlankRow == [Date |-> NaT, Category |-> NA, Amount |-> NaN, Description |-> NA, Note |-> NA, Month |-> NaT]

EmptyFrame == [cols |-> SessionColumns, rows |-> <<>>]

Range(s) == {s[i] : i \in DOMAIN s}

\* ------------------------------------------------------------ pandas steps
IsNull(col, r) ==
  CASE col = "Date" -> r.Date = NaT
    [] col = "Amount" -> r.Amount = NaN
    [] col = "Month" -> r.Month = NaT
    [] col = "Category" -> r.Category = NA
    [] col = "Description" -> r.Description = NA
    [] OTHER -> r.Note = NA

\* to_datetime as a conversion that moves every date one day on.
to_datetime_shifted(v) == IF v \in 1..MaxDate THEN v + 1 ELSE NaT

to_datetime(v) == IF v \in 1..MaxDate THEN v ELSE NaT

to_numeric(v) == IF v \in {NonNumericText, NaN} THEN NaN ELSE v

dropna(f) ==
  LET keep(r) == \A c \in Range(f.cols) : ~IsNull(c, r)
  IN [cols |-> f.cols, rows |-> SelectSeq(f.rows, keep)]

coerce_category(x) == IF x \in CATEGORIES THEN x ELSE "Other"

to_period(d) == IF d = NaT THEN NaT ELSE ((d - 1) \div DaysPerMonth) + 1

parse_columns(f) ==
  [cols |-> f.cols,
   rows |-> [i \in DOMAIN f.rows |-> [f.rows[i] EXCEPT !.Date = to_datetime(@), !.Amount = to_numeric(@)]]]

coerce_categories(f) ==
  [cols |-> f.cols, rows |-> [i \in DOMAIN f.rows |-> [f.rows[i] EXCEPT !.Category = coerce_category(@)]]]

with_month(f) ==
  [cols |-> IF "Month" \in Range(f.cols) THEN f.cols ELSE Append(f.cols, "Month"),
   rows |-> [i \in DOMAIN f.rows |-> [f.rows[i] EXCEPT !.Month = to_period(f.rows[i].Date)]]]

concat(a, b) ==
  LET extra == SelectSeq(b.cols, LAMBDA c : c \notin Range(a.cols))
  IN [cols |-> a.cols \o extra, rows |-> a.rows \o b.rows]

clean_data(f) == with_month(coerce_categories(dropna(parse_columns(f))))

\* ------------------------------------------------------------- the inputs
\* What the user can enter in the widgets of lines 24-28, 45 and 51.  An
\* Add Expense entry is chosen by its date and amount; the date fixes which
\* of two categories and which of two descriptions (empty or not) it has.
AddDates == 1..MaxDate
AddAmounts == {0, 30}
AddInput(d, amt) ==
  [date |-> d, amount |-> amt,
   category |-> IF d % 2 = 1 THEN "Food" ELSE "Transport",
   description |-> IF d % 2 = 1 THEN "" ELSE "gift"]

BudgetInputs == {-5, 25}

FullHeader == <<"Date", "Category", "Amount", "Description">>
ExtraHeader == <<"Date", "Category", "Amount", "Description", "Note">>
NoDescriptionHeader == <<"Date", "Category", "Amount">>
NoAmountHeader == <<"Date", "Category", "Description">>

CsvRowList == <<[Date |-> 3, Category |-> "Food", Amount |-> 20, Description |-> "lunch", Note |-> "x"],
                [Date |-> BadDateText, Category |-> "Food", Amount |-> 10, Description |-> "snack", Note |-> "x"],
                [Date |-> 1, Category |-> "Pets", Amount |-> -5, Description |-> "vet", Note |-> "x"],
                [Date |-> 2, Category |-> "Transport", Amount |-> NonNumericText, Description |-> "taxi", Note |-> "x"],
                [Date |-> 1, Category |-> "Food", Amount |-> 15, Description |-> "", Note |-> "x"]>>

\* The data rows of a file: up to MaxRows consecutive rows of CsvRowList.
CsvRowSeqs == {SubSeq(CsvRowList, i, j) : i \in 1..Len(CsvRowList), j \in 0..Len(CsvRowList)} \cap
              UNION {[1..n -> Range(CsvRowList)] : n \in 0..MaxRows}

CsvFiles == {[header |-> h, rows |-> rs] : h \in {FullHeader, ExtraHeader}, rs \in CsvRowSeqs} \cup
            {[header |-> h, rows |-> SubSeq(CsvRowList, 1, n)] : h \in {NoDescriptionHeader, NoAmountHeader}, n \in {MaxRows - 1, MaxRows}}

\* ---------------------------------------------------------------- state
VARIABLES df, budget, uploaded, filePos, status, view, msg

vars == <<df, budget, uploaded, filePos, status, view, msg>>

NoView == [shown |-> FALSE, empty |-> FALSE, alert |-> FALSE, monthly_total |-> 0, overage |-> 0,
           total_spent |-> 0, num_entries |-> 0, table |-> <<>>, sheet |-> [cols |-> <<>>, rows |-> <<>>]]

NoMsg == [added |-> FALSE, addError |-> FALSE, uploadedN |-> -1, exception |-> "none"]

\* ------------------------------------------------- Add Expense, lines 29-41
new_row(a) ==
  [cols |-> SessionColumns,
   rows |-> <<[BlankRow EXCEPT !.Date = to_datetime(a.date), !.Category = a.category, !.Amount = a.amount,
                               !.Description = IF a.description = "" THEN "N/A" ELSE a.description]>>]

\* --------------------------------------------------- CSV Upload, lines 51-62
read_csv(file) ==
  LET has(c) == c \in Range(file.header)
      text(c, v) == IF has(c) /\ v # "" THEN v ELSE NA
      cell(r) == [Date |-> IF has("Date") THEN r.Date ELSE NaT,
                  Category |-> text("Category", r.Category),
                  Amount |-> IF has("Amount") THEN r.Amount ELSE NaN,
                  Description |-> text("Description", r.Description),
                  Note |-> text("Note", r.Note),
                  Month |-> NaT]
  IN [cols |-> file.header, rows |-> [i \in DOMAIN file.rows |-> cell(file.rows[i])]]

has_required(f) == \A col \in {"Date", "Category", "Amount"} : col \in Range(f.cols)

normalize_upload(f) == coerce_categories(dropna(parse_columns(f)))

fill_description(f) ==
  [cols |-> f.cols,
   rows |-> [i \in DOMAIN f.rows |-> [f.rows[i] EXCEPT !.Description = IF @ = NA THEN "N/A" ELSE @]]]

\* ---------------------------------------------------- dashboard, lines 77-139
RECURSIVE SumAmount(_)
SumAmount(rows) == IF rows = <<>> THEN 0 ELSE Head(rows).Amount + SumAmount(Tail(rows))

\* max_month taking the earliest month instead of the latest.
max_month_earliest(f) == CHOOSE m \in {r.Month : r \in Range(f.rows)} : \A r \in Range(f.rows) : m <= r.Month

max_month(f) == CHOOSE m \in {r.Month : r \in Range(f.rows)} : \A r \in Range(f.rows) : r.Month <= m

month_total(f, m) == SumAmount(SelectSeq(f.rows, LAMBDA r : r.Month = m))

table_columns(f) == [i \in DOMAIN f.rows |-> [c \in Range(SessionColumns) |->
                       CASE c = "Date" -> f.rows[i].Date
                         [] c = "Amount" -> f.rows[i].Amount
                         [] c = "Category" -> f.rows[i].Category
                         [] OTHER -> f.rows[i].Description]]

dashboard(f, b) ==
  LET df_clean == clean_data(f) IN
  IF df_clean.rows = <<>>
  THEN [NoView EXCEPT !.shown = TRUE, !.empty = TRUE]
  ELSE LET monthly_total == month_total(df_clean, max_month(df_clean))
           fires == b > 0 /\ monthly_total > b
       IN [shown |-> TRUE, empty |-> FALSE, alert |-> fires,
           monthly_total |-> IF fires THEN monthly_total ELSE 0,
           overage |-> IF fires THEN monthly_total - b ELSE 0,
           total_spent |-> SumAmount(df_clean.rows),
           num_entries |-> Len(df_clean.rows),
           table |-> table_columns(df_clean),
           sheet |-> df_clean]

\* -------------------------------------- the script from line 50 to its end
\* pos is the read position of the file object the uploader hands to this run.
Rest(file, pos, m) ==
  IF file = <<>>
  THEN [df |-> df, filePos |-> pos, status |-> "rendered", view |-> dashboard(df, budget), msg |-> m]
  ELSE IF pos = "eof"
  THEN [df |-> df, filePos |-> pos, status |-> "exception", view |-> NoView,
        msg |-> [m EXCEPT !.exception = "EmptyDataError"]]
  ELSE LET df_upload == read_csv(file[1]) IN
       IF has_required(df_upload)
       THEN IF "Description" \notin Range(df_upload.cols)
            THEN [df |-> df, filePos |-> "eof", status |-> "exception", view |-> NoView,
                  msg |-> [m EXCEPT !.exception = "AttributeError"]]
            ELSE LET up == fill_description(normalize_upload(df_upload))
                 IN [df |-> concat(df, up), filePos |-> "eof", status |-> "rerun", view |-> NoView,
                     msg |-> [m EXCEPT !.uploadedN = Len(up.rows)]]
       ELSE [df |-> df, filePos |-> "eof", status |-> "rendered", view |-> dashboard(df, budget), msg |-> m]

Finish(r) ==
  /\ Len(r.df.rows) <= MaxLen
  /\ df' = r.df
  /\ filePos' = r.filePos
  /\ status' = r.status
  /\ view' = r.view
  /\ msg' = r.msg

\* The position of the file object of a run that a widget event started: the
\* front end sends the widget states and the uploader builds a new object.
FreshPos == IF uploaded = <<>> THEN "none" ELSE "start"

UserTurn == status # "rerun"

\* ----------------------------------------------------------------- actions
AddExpenseOf(a) ==
    /\ UserTurn
    /\ UNCHANGED <<budget, uploaded>>
    /\ IF a.amount > 0
       THEN Finish([df |-> concat(df, new_row(a)), filePos |-> FreshPos, status |-> "rerun",
                    view |-> NoView, msg |-> [NoMsg EXCEPT !.added = TRUE]])
       ELSE Finish(Rest(uploaded, FreshPos, [NoMsg EXCEPT !.addError = TRUE]))

AddExpense == \E d \in AddDates, amt \in AddAmounts : AddExpenseOf(AddInput(d, amt))

SetBudget ==
  \E b \in BudgetInputs :
    /\ UserTurn
    /\ budget' = b
    /\ UNCHANGED uploaded
    /\ Finish([df |-> df, filePos |-> FreshPos, status |-> "rerun", view |-> NoView, msg |-> NoMsg])

UploadCsvOf(f) ==
    /\ UserTurn
    /\ uploaded' = <<f>>
    /\ UNCHANGED budget
    /\ Finish(Rest(<<f>>, "start", NoMsg))

UploadCsv == \E f \in CsvFiles : UploadCsvOf(f)

RemoveCsv ==
  /\ UserTurn
  /\ uploaded # <<>>
  /\ uploaded' = <<>>
  /\ UNCHANGED budget
  /\ Finish(Rest(<<>>, "none", NoMsg))

\* A widget event that presses no button (editing an input field).
Refresh ==
  /\ UserTurn
  /\ UNCHANGED <<budget, uploaded>>
  /\ Finish(Rest(uploaded, FreshPos, NoMsg))

\* The run that st.rerun() asked for.  No widget event starts it, so the
\* uploader may hand over the object of the previous run, at the position
\* where that run left it, or a new object.
Rerun ==
  \E pos \in {filePos, FreshPos} :
    /\ status = "rerun"
    /\ UNCHANGED <<budget, uploaded>>
    /\ Finish(Rest(uploaded, pos, NoMsg))

Init ==
  /\ df = EmptyFrame
  /\ budget = 0
  /\ uploaded = <<>>
  /\ filePos = "none"
  /\ status = "rendered"
  /\ view = dashboard(EmptyFrame, 0)
  /\ msg = NoMsg

Next == AddExpense \/ SetBudget \/ UploadCsv \/ RemoveCsv \/ Refresh \/ Rerun

Spec == Init /\ [][Next]_vars

FairSpec == Spec /\ WF_vars(Rerun)

\* ------------------------------------------------------------ properties
Fields(r) == <<r.Date, r.Category, r.Amount, r.Description>>

FieldsOf(rows) == [i \in DOMAIN rows |-> Fields(rows[i])]

DateParses(v) == v \in 1..MaxDate

AmountIsNumeric(v) == v \notin {NaN, NonNumericText}

FixedCategory(x) == IF x \in CATEGORIES THEN x ELSE "Other"

IsPrefix(s, t) == Len(s) <= Len(t) /\ SubSeq(t, 1, Len(s)) = s

RECURSIVE SumAt(_, _)
SumAt(rows, S) == IF S = {} THEN 0 ELSE LET i == CHOOSE j \in S : TRUE IN rows[i].Amount + SumAt(rows, S \ {i})

Cleaned == clean_data(df).rows

MonthOf(d) == CHOOSE m \in 1..MaxDate : (m - 1) * DaysPerMonth < d /\ d <= m * DaysPerMonth

LatestRows == {i \in DOMAIN Cleaned : \A j \in DOMAIN Cleaned : MonthOf(Cleaned[j].Date) <= MonthOf(Cleaned[i].Date)}

LatestMonthTotal == SumAt(Cleaned, LatestRows)

\* C1: on every rendered view the budget alert is shown exactly when
\* budget > 0 and the amounts of the latest month of the cleaned ledger add
\* up to more than the budget; the overage shown is that total minus the budget.
C1_BudgetAlert ==
  view.shown =>
    /\ view.alert <=> (budget > 0 /\ Cleaned # <<>> /\ LatestMonthTotal > budget)
    /\ view.alert => view.overage = LatestMonthTotal - budget

\* An alert is on the screen while the ledger also holds an earlier month.
C1_Witness ==
  /\ view.shown /\ view.alert /\ view.overage > 0
  /\ \E i \in DOMAIN Cleaned : i \notin LatestRows

\* C2: every record of the cleaned ledger has a valid date, a numeric
\* amount that is not negative, and one of the seven categories.
C2_CleanRecordsValid ==
  \A i \in DOMAIN Cleaned :
    /\ DateParses(Cleaned[i].Date)
    /\ AmountIsNumeric(Cleaned[i].Amount)
    /\ Cleaned[i].Amount >= 0
    /\ Cleaned[i].Category \in CATEGORIES

\* C3: the cleaned ledger is exactly the records of the raw ledger whose date
\* parses and whose amount is numeric, in order, categories outside the set
\* replaced by Other; columns a CSV brought along make no difference.
C3_CleanKeepsValidRecords ==
  LET valid(r) == DateParses(r.Date) /\ AmountIsNumeric(r.Amount)
      kept == SelectSeq(df.rows, valid)
  IN FieldsOf(Cleaned) = [i \in DOMAIN kept |-> Fields([kept[i] EXCEPT !.Category = FixedCategory(kept[i].Category)])]

UploadHasRequired(f) == {"Date", "Category", "Amount"} \subseteq Range(f.header)

ExpectedUpload(f) ==
  LET valid(r) == DateParses(r.Date) /\ AmountIsNumeric(r.Amount)
      kept == SelectSeq(f.rows, valid)
  IN [i \in DOMAIN kept |->
        <<kept[i].Date, FixedCategory(kept[i].Category), kept[i].Amount,
          IF "Description" \notin Range(f.header) \/ kept[i].Description = "" THEN "N/A" ELSE kept[i].Description>>]

\* C4: an upload whose header has Date, Category and Amount appends exactly
\* the rows whose date parses and whose amount is numeric, category kept or
\* Other, description N/A when the column is absent or the cell blank, and
\* reports the number of rows appended.
C4_UploadAppendsValidRows ==
  [][\A f \in CsvFiles :
       (UploadCsvOf(f) /\ UploadHasRequired(f)) =>
         /\ FieldsOf(df'.rows) = FieldsOf(df.rows) \o ExpectedUpload(f)
         /\ msg'.uploadedN = Len(ExpectedUpload(f))]_vars

\* C5: each step leaves the old ledger as a prefix of the new one; an
\* accepted Add Expense appends one record, an upload appends its rows once,
\* and Set Budget, refreshes and reruns append nothing.
C5_LedgerChangesOnlyByItsAction ==
  [][/\ IsPrefix(df.rows, df'.rows)
     /\ (\E d \in AddDates, amt \in AddAmounts : amt > 0 /\ AddExpenseOf(AddInput(d, amt)))
          => Len(df'.rows) = Len(df.rows) + 1
     /\ (SetBudget \/ Refresh \/ Rerun \/ RemoveCsv) => df'.rows = df.rows]_vars

\* C6: an Add Expense with amount <= 0 and an upload whose header lacks a
\* required column leave the ledger and the budget as they were.
C6_RejectedInputChangesNothing ==
  [][((\E d \in AddDates, amt \in AddAmounts : amt <= 0 /\ AddExpenseOf(AddInput(d, amt)))
       \/ (\E f \in CsvFiles : ~UploadHasRequired(f) /\ UploadCsvOf(f)))
     => (df' = df /\ budget' = budget)]_vars

\* C7: no run ends in an exception, and a requested rerun leads to a
\* rendered page after finitely many runs.
C7_EveryActionCompletes ==
  /\ [](status # "exception")
  /\ (status = "rerun") ~> (status = "rendered")

\* C8: the Expenses sheet has one row per cleaned record, in order, and
\* exactly the columns Date, Category, Amount, Description.
C8_ExpensesSheet ==
  (view.shown /\ ~view.empty) =>
    /\ view.sheet.cols = <<"Date", "Category", "Amount", "Description">>
    /\ FieldsOf(view.sheet.rows) = FieldsOf(Cleaned)

\* C9: cleaning a cleaned ledger changes nothing: same columns, same
\* records, same order, same values.
C9_CleanIdempotent == clean_data(clean_data(df)) = clean_data(df)

\* Cleaning has dropped some records of the ledger and kept others.
C9_Witness == Cleaned # <<>> /\ Len(Cleaned) < Len(df.rows)

\* C10: the budget is never negative.
C10_BudgetNonNegative == budget >= 0

====
